---- MODULE Spec2Model ----
(***************************************************************************)
(* Model of bin/tdsplotslit.py: the class mySlit (a rectangle traced in    *)
(* longitude/latitude and rotated about its centre) and the script's main. *)
(*                                                                         *)
(* Numbers.  The code computes in floating point; the model computes the   *)
(* same expressions exactly, in fixed point.  An angle is held as a whole  *)
(* number of ticks of 0.1 arcsec, and a coordinate of a vertex built with  *)
(* resolution r as a whole number of 1/Scale(r) ticks, so that width * 0.5 *)
(* and the steps of np.linspace are exact.  Rotation angles are taken from *)
(* the angles whose sine and cosine are rational with denominator 5:       *)
(* 90 * quarter + frac * atan(4/3) degrees.                                *)
(***************************************************************************)
EXTENDS Integers, Sequences, FiniteSets, TLC

VARIABLES pc, args, ret, mpc, argv, files, pargs, image, hdr, radec_slit, ax, shown

vars == <<pc, args, ret, mpc, argv, files, pargs, image, hdr, radec_slit, ax, shown>>

slitVars == <<pc, args, ret>>

mainVars == <<mpc, argv, files, pargs, image, hdr, radec_slit, ax, shown>>

(***************************************************************************)
(* Bounds of the inputs.                                                   *)
(***************************************************************************)
MaxResolution == 3

MaxNegResolution == 2

MaxQuarter == 2

MaxCorr == 1

(***************************************************************************)
(* astropy units and quantities.                                           *)
(***************************************************************************)
TicksPer(unit) ==
    CASE unit = "arcsec" -> 10
      [] unit = "arcmin" -> 600
      [] unit = "deg" -> 36000
      [] unit = "hourangle" -> 540000

\* num/den * unit, e.g. 1.5*u.arcsec is Quantity(3, 2, "arcsec")
Quantity(num, den, unit) ==
    [ticks |-> (num * TicksPer(unit)) \div den, unit |-> unit]

\* q1 + q2 (and q1 += q2): the sum, in the unit of the left operand
QAdd(q1, q2) == [ticks |-> q1.ticks + q2.ticks, unit |-> q1.unit]

\* fixed-point denominator of the coordinates of a path of this resolution
Scale(resolution) == 10 * (IF resolution >= 1 THEN resolution ELSE 1)

\* q.to_value(vertex_unit), as a number of 1/scale ticks
ToValue(q, scale) == q.ticks * scale

(***************************************************************************)
(* Rotation angles and their exact cosine and sine (times 5).              *)
(***************************************************************************)
Deg(quarter, frac) == [quarter |-> quarter, frac |-> frac]

\* theta + 90 * n degrees
AddQuarters(theta, n) == [theta EXCEPT !.quarter = @ + n]

\* -theta
Neg(theta) == [quarter |-> 0 - theta.quarter, frac |-> 0 - theta.frac]

BaseCos5(frac) == IF frac = 0 THEN 5 ELSE 3

BaseSin5(frac) == 4 * frac

\* 5 * np.cos(theta)
Cos5(theta) ==
    LET k == theta.quarter % 4
    IN  CASE k = 0 -> BaseCos5(theta.frac)
          [] k = 1 -> 0 - BaseSin5(theta.frac)
          [] k = 2 -> 0 - BaseCos5(theta.frac)
          [] k = 3 -> BaseSin5(theta.frac)

\* 5 * np.sin(theta)
Sin5(theta) ==
    LET k == theta.quarter % 4
    IN  CASE k = 0 -> BaseSin5(theta.frac)
          [] k = 1 -> BaseCos5(theta.frac)
          [] k = 2 -> 0 - BaseSin5(theta.frac)
          [] k = 3 -> 0 - BaseCos5(theta.frac)

(***************************************************************************)
(* numpy helpers on one-dimensional arrays (sequences, indexed from 1).    *)
(***************************************************************************)
\* variant of Linspace: one sample too few (resolution in place of resolution + 1)
LinspaceOneShort(start, stop, num) ==
    IF num < 0 THEN [err |-> "ValueError", seq |-> << >>]
    ELSE [err |-> "none",
          seq |-> [i \in 1..(num - 1) |->
                     IF num = 2 THEN start
                     ELSE start + ((i - 1) * (stop - start)) \div (num - 2)]]

\* variant of Linspace: no error for a negative number of samples
LinspaceNoCheck(start, stop, num) ==
    [err |-> "none",
     seq |-> IF num <= 0 THEN << >>
             ELSE [i \in 1..num |->
                     IF num = 1 THEN start
                     ELSE start + ((i - 1) * (stop - start)) \div (num - 1)]]

\* np.linspace(start, stop, num): ValueError for num < 0
Linspace(start, stop, num) ==
    IF num < 0 THEN [err |-> "ValueError", seq |-> << >>]
    ELSE [err |-> "none",
          seq |-> [i \in 1..num |->
                     IF num = 1 THEN start
                     ELSE start + ((i - 1) * (stop - start)) \div (num - 1)]]

\* x + a, elementwise
AddScalar(x, a) == [i \in 1..Len(a) |-> x + a[i]]

\* a[:-1]
ButLast(a) == SubSeq(a, 1, Len(a) - 1)

\* a[1:]
FromSecond(a) == SubSeq(a, 2, Len(a))

\* np.flip(a)
Flip(a) == [i \in 1..Len(a) |-> a[Len(a) + 1 - i]]

\* np.repeat(x, n)
Repeat(x, n) == [i \in 1..n |-> x]

\* the rows of a 2 x N array as N pairs (array.T)
Transpose(rows) == [i \in 1..Len(rows[1]) |-> <<rows[1][i], rows[2][i]>>]

(***************************************************************************)
(* mySlit.__init__                                                         *)
(***************************************************************************)
\* variant of Corner: the factor 0.5 forgotten
CornerFullWidth(centre, size) == centre - size

\* Corner coordinates: lon_c - width * 0.5, lat_c - height * 0.5
Corner(centre, size) == centre - size \div 2

\* variant of Trace: whole edges, each corner twice
TraceDupCorners(lon_seq, lat_seq, resolution) ==
    <<lon_seq \o Repeat(lon_seq[Len(lon_seq)], resolution)
          \o Flip(lon_seq) \o Repeat(lon_seq[1], resolution),
      Repeat(lat_seq[1], resolution) \o lat_seq
          \o Repeat(lat_seq[Len(lat_seq)], resolution) \o Flip(lat_seq)>>

\* variant of Trace: the top edge not reversed
TraceNoFlip(lon_seq, lat_seq, resolution) ==
    <<ButLast(lon_seq) \o Repeat(lon_seq[Len(lon_seq)], resolution)
          \o FromSecond(lon_seq) \o Repeat(lon_seq[1], resolution),
      Repeat(lat_seq[1], resolution) \o ButLast(lat_seq)
          \o Repeat(lat_seq[Len(lat_seq)], resolution) \o Flip(FromSecond(lat_seq))>>

\* Trace the path of the quadrangle and Create polygon vertices (2 x N)
Trace(lon_seq, lat_seq, resolution) ==
    <<ButLast(lon_seq) \o Repeat(lon_seq[Len(lon_seq)], resolution)
          \o Flip(FromSecond(lon_seq)) \o Repeat(lon_seq[1], resolution),
      Repeat(lat_seq[1], resolution) \o ButLast(lat_seq)
          \o Repeat(lat_seq[Len(lat_seq)], resolution) \o Flip(FromSecond(lat_seq))>>

\* variant of RotMatrix: the usual counter-clockwise matrix
RotMatrixCCW(theta, dx, dy) ==
    <<(Cos5(theta) * dx - Sin5(theta) * dy) \div 5,
      (Sin5(theta) * dx + Cos5(theta) * dy) \div 5>>

\* variant of RotMatrix: the minus sign of the second row lost
RotMatrixSignSlip(theta, dx, dy) ==
    <<(Cos5(theta) * dx + Sin5(theta) * dy) \div 5,
      (Sin5(theta) * dx + Cos5(theta) * dy) \div 5>>

\* rot_matrix @ v for one column v = (dx, dy)
RotMatrix(theta, dx, dy) ==
    <<(Cos5(theta) * dx + Sin5(theta) * dy) \div 5,
      ((0 - Sin5(theta)) * dx + Cos5(theta) * dy) \div 5>>

\* variant of Rotate: about the origin of the coordinates
RotateAboutOrigin(vertices, center, theta) ==
    LET n == Len(vertices[1])
        rotated == [i \in 1..n |-> RotMatrix(theta, vertices[1][i], vertices[2][i])]
    IN  [i \in 1..n |-> <<rotated[i][1], rotated[i][2]>>]

\* Rotate Quadrangle: vertices is 2 x N, center is (lon_c, lat_c)
Rotate(vertices, center, theta) ==
    LET n == Len(vertices[1])
        shifted == <<[i \in 1..n |-> vertices[1][i] - center[1]],
                     [i \in 1..n |-> vertices[2][i] - center[2]]>>
        rotated == [i \in 1..n |-> RotMatrix(theta, shifted[1][i], shifted[2][i])]
        back == <<[i \in 1..n |-> rotated[i][1] + center[1]],
                  [i \in 1..n |-> rotated[i][2] + center[2]]>>
    IN  Transpose(back)

\* the vertices handed to Polygon.__init__, or the exception raised before
mySlit(anchor, width, height, theta, resolution) ==
    LET scale == Scale(resolution)
        lon_c == ToValue(anchor[1], scale)
        lat_c == ToValue(anchor[2], scale)
        w == ToValue(width, scale)
        h == ToValue(height, scale)
        longitude == Corner(lon_c, w)
        latitude == Corner(lat_c, h)
        lin_lon == Linspace(0, w, resolution + 1)
        lin_lat == Linspace(0, h, resolution + 1)
        lon_seq == AddScalar(longitude, lin_lon.seq)
        lat_seq == AddScalar(latitude, lin_lat.seq)
    IN  IF lin_lon.err # "none" THEN [err |-> lin_lon.err, xy |-> << >>]
        ELSE IF Len(lon_seq) = 0 THEN [err |-> "IndexError", xy |-> << >>]
        ELSE [err |-> "none",
              xy |-> Rotate(Trace(lon_seq, lat_seq, resolution),
                            <<lon_c, lat_c>>, theta)]

(***************************************************************************)
(* Construction of one mySlit from arbitrary arguments.                    *)
(***************************************************************************)
Anchors ==
    { <<Quantity(10, 1, "deg"), Quantity(20, 1, "deg")>>,
      <<Quantity(0, 1, "deg"), Quantity(0, 1, "deg")>>,
      <<Quantity(0 - 3, 1, "arcsec"), Quantity(1, 1, "arcmin")>> }

Widths ==
    { Quantity(2, 1, "deg"), Quantity(3, 2, "arcsec"),
      Quantity(0, 1, "arcsec"), Quantity(0 - 1, 1, "arcsec") }

Heights ==
    { Quantity(4, 1, "deg"), Quantity(3, 1, "arcmin"),
      Quantity(0, 1, "deg"), Quantity(0 - 1, 1, "deg") }

Thetas == { Deg(q, f) : q \in (0 - MaxQuarter)..MaxQuarter, f \in {0 - 1, 0, 1} }

Resolutions == (0 - MaxNegResolution)..MaxResolution

NoArgs == [anchor |-> << >>]

NoRet == [err |-> "unset", xy |-> << >>]

MainIdle ==
    /\ mpc = "idle"
    /\ argv = << >>
    /\ files = << >>
    /\ pargs = << >>
    /\ image = << >>
    /\ hdr = << >>
    /\ radec_slit = << >>
    /\ ax = << >>
    /\ shown = FALSE

Init ==
    /\ pc = "new"
    /\ args \in [anchor : Anchors, width : Widths, height : Heights,
                 theta : Thetas, resolution : Resolutions]
    /\ ret = NoRet
    /\ MainIdle

Build ==
    /\ pc = "new"
    /\ ret' = mySlit(args.anchor, args.width, args.height, args.theta, args.resolution)
    /\ pc' = "built"
    /\ UNCHANGED <<args, mainVars>>

Next == Build

Spec == Init /\ [][Next]_vars

(***************************************************************************)
(* main                                                                    *)
(***************************************************************************)
\* the default of the resolution parameter of mySlit.__init__
DefaultResolution == 100

\* Angle('h:m:s' + ' hours') and Angle('d:m:s' + ' degrees')
Angle(sexagesimal, unit) ==
    Quantity(sexagesimal[1] * 3600 + sexagesimal[2] * 60 + sexagesimal[3], 3600, unit)

Corrs == (0 - MaxCorr)..MaxCorr

\* the command line: the two paths and whichever of the two options are given
Argvs ==
    UNION { [image : {"image.fits"}, spectrum : {"spectrum.fits"}, opts : [S -> Corrs]] :
              S \in SUBSET {"--ra-corr", "--dec-corr"} }

\* the headers of the spectrum files the script may be given
SpectrumHeaders ==
    [RA : { <<0, 0, 0>>, <<0, 1, 30>> },
     DEC : { <<0, 0, 0>>, <<0, 2, 5>> },
     OBJECT : {"NGC"},
     POSANG : { Deg(q, f) : q \in 0..MaxQuarter, f \in {0 - 1, 0, 1} }]

SlitIdle ==
    /\ pc = "idle"
    /\ args = NoArgs
    /\ ret = NoRet

InitMain ==
    /\ SlitIdle
    /\ mpc = "start"
    /\ argv \in Argvs
    /\ files \in [image : {[header |-> "wcs keys", data |-> "pixels"]},
                  spectrum : SpectrumHeaders]
    /\ pargs = << >>
    /\ image = << >>
    /\ hdr = << >>
    /\ radec_slit = << >>
    /\ ax = << >>
    /\ shown = FALSE

\* parser.parse_args(args[1:])
ParseArgs ==
    /\ mpc = "start"
    /\ pargs' = [image |-> argv.image,
                 spectrum |-> argv.spectrum,
                 ra_corr |-> IF "--ra-corr" \in DOMAIN argv.opts
                             THEN argv.opts["--ra-corr"] ELSE 0,
                 dec_corr |-> IF "--dec-corr" \in DOMAIN argv.opts
                              THEN argv.opts["--dec-corr"] ELSE 0]
    /\ mpc' = "parsed"
    /\ UNCHANGED <<slitVars, argv, files, image, hdr, radec_slit, ax, shown>>

\* fits.open(pargs.image)[0], WCS(image.header), fits.getheader(pargs.spectrum)
ReadFiles ==
    /\ mpc = "parsed"
    /\ image' = [data |-> files.image.data, wcs |-> files.image.header]
    /\ hdr' = files.spectrum
    /\ mpc' = "read"
    /\ UNCHANGED <<slitVars, argv, files, pargs, radec_slit, ax, shown>>

\* radec_slit after the two += : element 1 is the RA, element 2 the Dec
\* (radec_slit[0] and radec_slit[1] of the code)
CorrectedCentre(header, parsed) ==
    <<QAdd(Angle(header.RA, "hourangle"), Quantity(parsed.dec_corr, 1, "arcsec")),
      QAdd(Angle(header.DEC, "deg"), Quantity(parsed.ra_corr, 1, "arcsec"))>>

SlitCentre ==
    /\ mpc = "read"
    /\ radec_slit' = CorrectedCentre(hdr, pargs)
    /\ mpc' = "centred"
    /\ UNCHANGED <<slitVars, argv, files, pargs, image, hdr, ax, shown>>

\* plt.subplot(projection=wcs), ax.set_title, ax.imshow
SetupAxes ==
    /\ mpc = "centred"
    /\ ax' = [projection |-> image.wcs, title |-> hdr.OBJECT,
              images |-> <<image.data>>, patches |-> << >>]
    /\ mpc' = "axes"
    /\ UNCHANGED <<slitVars, argv, files, pargs, image, hdr, radec_slit, shown>>

\* theta of the slit and of the marker, from PA = hdr['POSANG']
SlitTheta(PA) == PA

\* variant of MarkerTheta: the + 90 forgotten
MarkerThetaParallel(PA) == PA

MarkerTheta(PA) == AddQuarters(PA, 1)

\* s = mySlit(radec_slit, 1.0*u.arcsec, 3.0*u.arcmin, theta=PA*u.deg, ...)
SlitPatch(centre, PA) ==
    [xy |-> mySlit(centre, Quantity(1, 1, "arcsec"), Quantity(3, 1, "arcmin"),
                   SlitTheta(PA), DefaultResolution).xy,
     edgecolor |-> "tab:olive"]

\* c = mySlit(radec_slit, 0.1*u.arcsec, 0.1*u.arcmin, theta=(PA+90)*u.deg, ...)
MarkerPatch(centre, PA) ==
    [xy |-> mySlit(centre, Quantity(1, 10, "arcsec"), Quantity(1, 10, "arcmin"),
                   MarkerTheta(PA), DefaultResolution).xy,
     edgecolor |-> "red"]

AddSlit ==
    /\ mpc = "axes"
    /\ ax' = [ax EXCEPT !.patches = Append(@, SlitPatch(radec_slit, hdr.POSANG))]
    /\ mpc' = "slit"
    /\ UNCHANGED <<slitVars, argv, files, pargs, image, hdr, radec_slit, shown>>

AddMarker ==
    /\ mpc = "slit"
    /\ ax' = [ax EXCEPT !.patches = Append(@, MarkerPatch(radec_slit, hdr.POSANG))]
    /\ mpc' = "marker"
    /\ UNCHANGED <<slitVars, argv, files, pargs, image, hdr, radec_slit, shown>>

\* plt.show(); return 0
Show ==
    /\ mpc = "marker"
    /\ shown' = TRUE
    /\ mpc' = "done"
    /\ UNCHANGED <<slitVars, argv, files, pargs, image, hdr, radec_slit, ax>>

NextMain ==
    \/ ParseArgs
    \/ ReadFiles
    \/ SlitCentre
    \/ SetupAxes
    \/ AddSlit
    \/ AddMarker
    \/ Show

SpecMain == InitMain /\ [][NextMain]_vars

(***************************************************************************)
(* Properties of mySlit.                                                   *)
(***************************************************************************)
Built == pc = "built"

Valid == args.resolution >= 1 /\ args.width.ticks > 0 /\ args.height.ticks > 0

Unrotated == args.theta = Deg(0, 0)

\* the centre, the half sizes and the steps of the rectangle, in path coordinates
Cx == args.anchor[1].ticks * Scale(args.resolution)

Cy == args.anchor[2].ticks * Scale(args.resolution)

HalfW == args.width.ticks * 5 * args.resolution

HalfH == args.height.ticks * 5 * args.resolution

StepW == args.width.ticks * 10

StepH == args.height.ticks * 10

\* the path the constructor builds from the same arguments with theta = 0
UnrotatedPath ==
    mySlit(args.anchor, args.width, args.height, Deg(0, 0), args.resolution).xy

RECURSIVE SumCoord(_, _, _)
SumCoord(xy, k, n) == IF n = 0 THEN 0 ELSE xy[n][k] + SumCoord(xy, k, n - 1)

Abs(x) == IF x < 0 THEN 0 - x ELSE x

\* C1: for valid input (resolution >= 1, width > 0, height > 0, any centre, any
\* theta) the constructor succeeds and the path has exactly 4 * resolution
\* vertices; resolution = 1 gives exactly 4.
C1_VertexCount ==
    (Built /\ Valid) =>
        /\ ret.err = "none"
        /\ Len(ret.xy) = 4 * args.resolution
        /\ (args.resolution = 1 => Len(ret.xy) = 4)

C1_Witness ==
    /\ Built /\ Valid
    /\ args.resolution = MaxResolution
    /\ args.theta.frac = 1
    /\ Len(ret.xy) = 4 * MaxResolution

\* C2: with theta = 0 and resolution >= 1 the vertices at (0-based) indices 0,
\* resolution, 2*resolution, 3*resolution are (lon-w/2, lat-h/2), (lon+w/2, lat-h/2),
\* (lon+w/2, lat+h/2), (lon-w/2, lat+h/2); for resolution = 1 these are the whole
\* path; centre (10, 20) deg, width 2 deg, height 4 deg gives
\* [(9,18), (11,18), (11,22), (9,22)] deg.
C2_Corners ==
    (Built /\ Unrotated /\ args.resolution >= 1) =>
        LET r == args.resolution
            bl == <<Cx - HalfW, Cy - HalfH>>
            br == <<Cx + HalfW, Cy - HalfH>>
            tr == <<Cx + HalfW, Cy + HalfH>>
            tl == <<Cx - HalfW, Cy + HalfH>>
            d == TicksPer("deg") * Scale(1)
        IN  /\ ret.err = "none"
            /\ ret.xy[1] = bl
            /\ ret.xy[r + 1] = br
            /\ ret.xy[2 * r + 1] = tr
            /\ ret.xy[3 * r + 1] = tl
            /\ (r = 1 => ret.xy = <<bl, br, tr, tl>>)
            /\ (/\ r = 1
                /\ args.anchor = <<Quantity(10, 1, "deg"), Quantity(20, 1, "deg")>>
                /\ args.width = Quantity(2, 1, "deg")
                /\ args.height = Quantity(4, 1, "deg"))
               => ret.xy = << <<9 * d, 18 * d>>, <<11 * d, 18 * d>>,
                              <<11 * d, 22 * d>>, <<9 * d, 22 * d>> >>

C2_Witness ==
    /\ Built /\ Unrotated
    /\ args.resolution = 1
    /\ args.anchor = <<Quantity(10, 1, "deg"), Quantity(20, 1, "deg")>>
    /\ args.width = Quantity(2, 1, "deg")
    /\ args.height = Quantity(4, 1, "deg")
    /\ ret.xy[3] = <<11 * 360000, 22 * 360000>>

\* C3 (as claimed): a non-positive width or height fails with InvalidDimension
\* and produces no vertex path.
C3_InvalidDimension ==
    (Built /\ (args.width.ticks <= 0 \/ args.height.ticks <= 0)) =>
        (ret.err = "InvalidDimension" /\ ret.xy = << >>)

\* C3 (amended): width and height are never validated; with a non-positive
\* width or height and resolution >= 1 the constructor raises nothing and
\* builds a path of 4 * resolution vertices, and no build ends in InvalidDimension.
C3_NoDimensionCheck ==
    (Built /\ (args.width.ticks <= 0 \/ args.height.ticks <= 0)) =>
        /\ ret.err # "InvalidDimension"
        /\ args.resolution >= 1 =>
              (ret.err = "none" /\ Len(ret.xy) = 4 * args.resolution)

C3_Witness ==
    /\ Built
    /\ args.width.ticks = 0
    /\ args.height.ticks < 0
    /\ args.resolution = 2
    /\ ret.err = "none"
    /\ Len(ret.xy) = 8

\* C4 (as claimed): resolution <= 0 fails with InvalidResolution and produces
\* no vertex path, never an empty or partial one.
C4_InvalidResolution ==
    (Built /\ args.resolution <= 0) => ret.err = "InvalidResolution"

\* C4 (amended): resolution = 0 raises nothing and builds the empty path;
\* resolution = -1 fails with IndexError and resolution <= -2 with ValueError
\* (numpy's own errors), producing no path; no partial path is ever built.
C4_NoResolutionCheck ==
    (Built /\ args.resolution <= 0) =>
        /\ ret.xy = << >>
        /\ args.resolution = 0 => ret.err = "none"
        /\ args.resolution = 0 - 1 => ret.err = "IndexError"
        /\ args.resolution <= 0 - 2 => ret.err = "ValueError"

C4_Witness ==
    /\ Built
    /\ args.resolution = 0
    /\ ret.err = "none"
    /\ Len(ret.xy) = 0

\* C5: for valid input and every theta the centroid (the mean of the
\* 4 * resolution vertices) of the built path is the given centre.
C5_Centroid ==
    (Built /\ Valid) =>
        LET n == Len(ret.xy)
        IN  /\ n > 0
            /\ SumCoord(ret.xy, 1, n) = n * Cx
            /\ SumCoord(ret.xy, 2, n) = n * Cy

C5_Witness ==
    /\ Built /\ Valid
    /\ args.theta = Deg(1, 1)
    /\ args.anchor[1].ticks # 0
    /\ args.resolution = MaxResolution
    /\ SumCoord(ret.xy, 1, Len(ret.xy)) = 4 * MaxResolution * Cx

\* C6: every vertex is R(theta) * (v - centre) + centre, R = [[cos, sin], [-sin, cos]],
\* i.e. the counter-clockwise rotation by -theta of the unrotated vertex v of
\* the same index; for theta = 90 degrees an offset (dx, dy) becomes (dy, -dx).
C6_RotationConvention ==
    (Built /\ ret.err = "none") =>
        LET base == UnrotatedPath
            m == Neg(args.theta)
        IN  /\ Len(ret.xy) = Len(base)
            /\ \A i \in 1..Len(base) :
                 LET dx == base[i][1] - Cx
                     dy == base[i][2] - Cy
                 IN  /\ 5 * (ret.xy[i][1] - Cx) = Cos5(m) * dx - Sin5(m) * dy
                     /\ 5 * (ret.xy[i][2] - Cy) = Sin5(m) * dx + Cos5(m) * dy
                     /\ args.theta = Deg(1, 0) =>
                          ret.xy[i] = <<Cx + dy, Cy - dx>>

C6_Witness ==
    /\ Built /\ Valid
    /\ args.theta = Deg(1, 0)
    /\ args.resolution = 2
    /\ ret.xy[1] = <<Cx - HalfH, Cy + HalfW>>
    /\ ret.xy[1] # UnrotatedPath[1]

\* the N pairs of a path as the 2 x N array Rotate takes
Rows(xy) == <<[i \in 1..Len(xy) |-> xy[i][1]], [i \in 1..Len(xy) |-> xy[i][2]]>>

\* C7: rotating the path built with theta by -theta about the centre gives
\* back, vertex by vertex, the path built with theta = 0.
C7_RoundTrip ==
    (Built /\ ret.err = "none") =>
        Rotate(Rows(ret.xy), <<Cx, Cy>>, Neg(args.theta)) = UnrotatedPath

C7_Witness ==
    /\ Built /\ Valid
    /\ args.theta = Deg(0 - 1, 1)
    /\ args.resolution = MaxResolution
    /\ ret.xy # UnrotatedPath
    /\ Rotate(Rows(ret.xy), <<Cx, Cy>>, Neg(args.theta)) = UnrotatedPath

\* C10: before rotation (theta = 0), for resolution >= 1 and positive width and
\* height, edge k (bottom left-to-right, right bottom-to-top, top right-to-left,
\* left top-to-bottom) occupies the (0-based) indices k*resolution ..
\* (k+1)*resolution - 1, every vertex is on the rectangle boundary, the vertices
\* are pairwise distinct, and cyclically consecutive vertices differ in exactly
\* one coordinate by one step (width/resolution or height/resolution).
C10_BoundaryTrace ==
    (Built /\ Valid /\ Unrotated) =>
        LET r == args.resolution
            n == 4 * r
            x0 == Cx - HalfW
            x1 == Cx + HalfW
            y0 == Cy - HalfH
            y1 == Cy + HalfH
            xy == ret.xy
        IN  /\ Len(xy) = n
            /\ \A i \in 1..r :
                 /\ xy[i] = <<x0 + (i - 1) * StepW, y0>>
                 /\ xy[r + i] = <<x1, y0 + (i - 1) * StepH>>
                 /\ xy[2 * r + i] = <<x1 - (i - 1) * StepW, y1>>
                 /\ xy[3 * r + i] = <<x0, y1 - (i - 1) * StepH>>
            /\ \A i \in 1..n :
                 \/ xy[i][1] \in {x0, x1} /\ y0 <= xy[i][2] /\ xy[i][2] <= y1
                 \/ xy[i][2] \in {y0, y1} /\ x0 <= xy[i][1] /\ xy[i][1] <= x1
            /\ \A i, j \in 1..n : i # j => xy[i] # xy[j]
            /\ \A i \in 1..n :
                 LET j == (i % n) + 1
                 IN  \/ xy[i][2] = xy[j][2] /\ Abs(xy[i][1] - xy[j][1]) = StepW
                     \/ xy[i][1] = xy[j][1] /\ Abs(xy[i][2] - xy[j][2]) = StepH

C10_Witness ==
    /\ Built /\ Valid /\ Unrotated
    /\ args.resolution = MaxResolution
    /\ ret.xy[2 * MaxResolution + 2] = <<Cx + HalfW - StepW, Cy + HalfH>>

(***************************************************************************)
(* Properties of main.                                                     *)
(***************************************************************************)
Centred == mpc \in {"centred", "axes", "slit", "marker", "done"}

\* C8: the centre used for the quadrangles has RA = header RA + ra_corr arcsec
\* and Dec = header DEC + dec_corr arcsec (so --ra-corr leaves the declination
\* and --dec-corr the right ascension unchanged).
C8_CorrectionAxes ==
    Centred =>
        /\ radec_slit[1].ticks =
              Angle(hdr.RA, "hourangle").ticks + pargs.ra_corr * TicksPer("arcsec")
        /\ radec_slit[2].ticks =
              Angle(hdr.DEC, "deg").ticks + pargs.dec_corr * TicksPer("arcsec")

\* one step along the right edge of a patch: the direction of its height axis
HeightStep(patch) ==
    <<patch.xy[DefaultResolution + 2][1] - patch.xy[DefaultResolution + 1][1],
      patch.xy[DefaultResolution + 2][2] - patch.xy[DefaultResolution + 1][2]>>

\* twice the midpoint of the bottom-left and top-right corners of a patch
TwiceMid(patch) ==
    <<patch.xy[1][1] + patch.xy[2 * DefaultResolution + 1][1],
      patch.xy[1][2] + patch.xy[2 * DefaultResolution + 1][2]>>

\* height / resolution of the slit (3 arcmin) and of the marker (0.1 arcmin),
\* in path coordinates
SlitStep ==
    (Quantity(3, 1, "arcmin").ticks * Scale(DefaultResolution)) \div DefaultResolution

MarkerStep ==
    (Quantity(1, 10, "arcmin").ticks * Scale(DefaultResolution)) \div DefaultResolution

\* C9: the slit and the marker are built at the same (corrected) centre, the
\* slit's height axis at rotation PA and the marker's at PA + 90 degrees, so
\* the two height axes are perpendicular for every PA; both patches are on
\* the axes before the display step.
C9_PerpendicularMarker ==
    /\ shown => (mpc = "done" /\ Len(ax.patches) = 2)
    /\ mpc \in {"marker", "done"} =>
         LET s == ax.patches[1]
             c == ax.patches[2]
             centre == <<radec_slit[1].ticks * Scale(DefaultResolution),
                         radec_slit[2].ticks * Scale(DefaultResolution)>>
             PA == hdr.POSANG
             hs == HeightStep(s)
             hc == HeightStep(c)
         IN  /\ Len(ax.patches) = 2
             /\ Len(s.xy) = 4 * DefaultResolution
             /\ Len(c.xy) = 4 * DefaultResolution
             /\ TwiceMid(s) = <<2 * centre[1], 2 * centre[2]>>
             /\ TwiceMid(c) = <<2 * centre[1], 2 * centre[2]>>
             /\ <<5 * hs[1], 5 * hs[2]>> = <<Sin5(PA) * SlitStep, Cos5(PA) * SlitStep>>
             /\ <<5 * hc[1], 5 * hc[2]>> =
                   <<Cos5(PA) * MarkerStep, (0 - Sin5(PA)) * MarkerStep>>
             /\ hs[1] * hc[1] + hs[2] * hc[2] = 0

C9_Witness ==
    /\ mpc = "done"
    /\ shown
    /\ hdr.POSANG = Deg(1, 1)
    /\ pargs.ra_corr # pargs.dec_corr
    /\ Len(ax.patches) = 2
    /\ HeightStep(ax.patches[1]) = <<3 * 3600, (0 - 4) * 3600>>
    /\ HeightStep(ax.patches[2]) = <<(0 - 4) * 120, (0 - 3) * 120>>
    /\ TwiceMid(ax.patches[1]) = TwiceMid(ax.patches[2])

====
